---- MODULE Spec2Model ----
(***************************************************************************)
(* The content-generation workflow of src/App.tsx: the React state object, *)
(* the asynchronous run started by startWorkflow, the single-scene         *)
(* retryImage, and the user's navigation controls, over the outcomes the   *)
(* Generation Client of src/geminiService.ts can deliver.                  *)
(*                                                                         *)
(* JavaScript runs one task at a time: the code between two awaits runs    *)
(* without interleaving, so every action below is one such segment, from   *)
(* the event (a click, a response, a rejection) that resumes the code to   *)
(* the next await or return.  A render follows every setState before the   *)
(* next user event, so a handler's closure holds the state of the moment   *)
(* it is invoked.                                                          *)
(***************************************************************************)
EXTENDS Integers, Sequences, FiniteSets, TLC

\* Bounds of the model.
MaxRuns == 2        \* runs that may be started
MaxScenes == 2      \* paragraphs a generated script may carry
MaxRetries == 2     \* single-scene retries outstanding at one time

RunIds == 1..MaxRuns
SceneIds == 1..MaxScenes

\* types.ts AppStep
AppStep == {"input", "research", "script", "images", "metadata", "thumbnail"}

\* The values the topic textarea takes: empty, or some text.
Topics == {"", "t"}

\* Data URLs an image response may carry; "" is the value generateImage
\* returns when the response holds no inline image.
Urls == {"u1", "u2"}

\* An optional string field that was never assigned.
Undefined == "undefined"

\* A paragraph object as generateScript's JSON delivers it: no imageUrl, no
\* isGenerating (an absent isGenerating reads as false wherever it is read).
NewParagraph == [imageUrl |-> Undefined, isGenerating |-> FALSE]

\* AppState.thumbnail before any thumbnail was committed.
NoThumbnail == [id |-> 0, pureImageUrl |-> Undefined]

VARIABLES
  state,    \* the AppState held by useState; research, script, metadata and
            \* thumbnail.id are 0 when undefined, else the id of the run whose
            \* call produced the object
  scripts,  \* the ScriptData objects by producing run: the paragraph objects
            \* every copy of the paragraphs array shares
  runs,     \* per run: the await startWorkflow is suspended at, and its history
  started,  \* number of runs started so far
  pending,  \* Generation Client calls of runs that have not returned
  retries,  \* outstanding retryImage calls per captured script and index
  last      \* what the operation that ran last was: "startWorkflow" for a call
            \* of startWorkflow, "end" for the segment in which a run returned,
            \* "other" otherwise

vars == <<state, scripts, runs, started, pending, retries, last>>

\* A run before startWorkflow is invoked for it.  pc is the await the function
\* is suspended at and i the index of its image loop; the other fields record
\* what the run has done: the client calls it issued, the steps it set, the
\* alert() notices it raised, the stage whose call threw, the outcome of each
\* image call of its loop, the outcome of each request its
\* generateThumbnailContent call made (the copy suggestions, then the image),
\* and what the state held when it started.
IdleRun == [pc |-> "idle", i |-> 0, calls |-> <<>>, steps |-> <<>>,
            alerts |-> 0, failed |-> "none", outcomes |-> <<>>, thumb |-> <<>>,
            before |-> [script |-> 0, metadata |-> 0, thumbnail |-> 0]]

Init ==
  /\ state = [currentStep |-> "input", topic |-> "", research |-> 0, script |-> 0,
              metadata |-> 0, thumbnail |-> NoThumbnail, isProcessing |-> FALSE]
  /\ scripts = [s \in RunIds |-> [shape |-> "none", paragraphs |-> <<>>]]
  /\ runs = [r \in RunIds |-> IdleRun]
  /\ started = 0
  /\ pending = {}
  /\ retries = [p \in RunIds \X SceneIds |-> 0]
  /\ last = "other"

-----------------------------------------------------------------------------
(* The state store *)

\* setState(prev => ({ ...prev, ...updates }))
updateState(prev, updates) ==
  [k \in DOMAIN prev |-> IF k \in DOMAIN updates THEN updates[k] ELSE prev[k]]

\* The IMAGES step renders state.script?.paragraphs.map(...): with a script
\* object that has no paragraphs array the render throws and React unmounts
\* the application; no control is left and later setState calls do nothing.
Mounted ==
  ~ (state.currentStep = "images" /\ state.script # 0
       /\ scripts[state.script].shape = "empty")

-----------------------------------------------------------------------------
(* The Generation Client: the outcomes of each operation *)

Rejected == [ok |-> FALSE, value |-> "error"]
Resolved(v) == [ok |-> TRUE, value |-> v]

\* performResearch resolves with { report, sources } or rejects with the request.
performResearch == {Rejected, Resolved("report")}

\* generateScript resolves with the parsed JSON: a script with n paragraphs, or
\* {} when the response carries no text; it rejects with the request or with
\* JSON.parse.
generateScript ==
  {Rejected, Resolved(-1)} \cup {Resolved(n) : n \in 0..MaxScenes}

\* generateMetadata(script) evaluates script.substring before the request: with
\* the ttsScript of {} (undefined) it throws and no request is made.
generateMetadata(shape) ==
  IF shape = "full" THEN {Rejected, Resolved("metadata")} ELSE {Rejected}

\* The first request of generateThumbnailContent: the copy suggestions.
thumbnailText == {Rejected, Resolved("copy")}

\* generateImage resolves with the data URL of the first inline part, with ''
\* when there is none, or rejects with the request.
generateImage == {Rejected} \cup {Resolved(u) : u \in Urls \cup {""}}

-----------------------------------------------------------------------------
(* startWorkflow, App.tsx lines 45-93 *)

Call(r, op, idx) == [run |-> r, op |-> op, idx |-> idx]

\* Faulty variant of topicMissing: startWorkflow without the guard of line 46.
topicMissingIgnored == FALSE

\* if (!state.topic) return;
topicMissing == state.topic = ""

\* Faulty variant of submitDisabled: the submit button is never disabled.
submitNeverDisabled == FALSE

\* The submit button: disabled={state.isProcessing}
submitDisabled == state.isProcessing

\* catch (error) { console.error(...); alert(...) }: one failure notice.
catchWorkflow(run, stage) ==
  [run EXCEPT !.alerts = @ + 1, !.failed = stage]

\* Faulty variant of finallyWorkflow: isProcessing is not cleared when the
\* function returns.
finallyWorkflowSkipped(s) == s

\* finally { updateState({ isProcessing: false }) }
finallyWorkflow(s) == updateState(s, [isProcessing |-> FALSE])

\* Faulty variant of Abort: the catch block also discards the results the run
\* has committed.
AbortResets(r, s, stage) ==
  /\ state' = updateState(s, [research |-> 0, script |-> 0, metadata |-> 0,
                              thumbnail |-> NoThumbnail, isProcessing |-> FALSE])
  /\ runs' = [runs EXCEPT ![r] = [@ EXCEPT !.alerts = @ + 1, !.failed = stage, !.pc = "done"]]

\* A call of the try block threw at `stage`: catch, then finally; the function
\* returns and issues nothing more.
Abort(r, s, stage) ==
  /\ state' = finallyWorkflow(s)
  /\ runs' = [runs EXCEPT ![r] = [catchWorkflow(@, stage) EXCEPT !.pc = "done"]]

\* Faulty variant of stepAt: the METADATA and THUMBNAIL steps exchanged.
stepAtSwapped(pc) ==
  CASE pc = "research" -> "research"
    [] pc = "script" -> "script"
    [] pc = "metadata" -> "thumbnail"
    [] pc = "thumbText" -> "metadata"
    [] pc = "image" -> "images"

\* The step startWorkflow shows before the call it suspends at: lines 47, 55,
\* 60, 65 and 70.
stepAt(pc) ==
  CASE pc = "research" -> "research"
    [] pc = "script" -> "script"
    [] pc = "metadata" -> "metadata"
    [] pc = "thumbText" -> "thumbnail"
    [] pc = "image" -> "images"

\* The run has set currentStep for `pc` and suspends there at `call`.
Suspend(run, pc, call) ==
  [run EXCEPT !.pc = pc, !.steps = Append(@, stepAt(pc)), !.calls = Append(@, call)]

\* Lines 47-51: isProcessing and the RESEARCH step, then the first call.
startWorkflow(r) ==
  /\ state' = updateState(state, [isProcessing |-> TRUE, currentStep |-> stepAt("research")])
  /\ runs' = [runs EXCEPT ![r] =
       [Suspend(IdleRun, "research", Call(r, "research", 0))
          EXCEPT !.before = [script |-> state.script, metadata |-> state.metadata,
                             thumbnail |-> state.thumbnail.id]]]
  /\ pending' = pending \cup {Call(r, "research", 0)}
  /\ started' = r

\* The form of the INPUT step is submitted (handleTopicSubmit, lines 95-98),
\* which calls startWorkflow: with no topic it returns at line 46.
HandleTopicSubmit ==
  /\ Mounted
  /\ state.currentStep = "input"
  /\ ~ submitDisabled
  /\ IF topicMissing
       THEN /\ last' = "startWorkflow"
            /\ UNCHANGED <<state, scripts, runs, started, pending, retries>>
       ELSE /\ started < MaxRuns
            /\ startWorkflow(started + 1)
            /\ last' = "startWorkflow"
            /\ UNCHANGED <<scripts, retries>>

\* Lines 51-56: performResearch returned.
ResearchDone(r, out) ==
  /\ runs[r].pc = "research"
  /\ out \in performResearch
  /\ IF out.ok
       THEN /\ state' = updateState(updateState(state, [research |-> r]),
                                    [currentStep |-> stepAt("script")])
            /\ runs' = [runs EXCEPT ![r] = Suspend(@, "script", Call(r, "script", 0))]
            /\ pending' = (pending \ {Call(r, "research", 0)}) \cup {Call(r, "script", 0)}
       ELSE /\ Abort(r, state, "research")
            /\ pending' = pending \ {Call(r, "research", 0)}
  /\ UNCHANGED <<scripts, started, retries>>
  /\ last' = IF runs'[r].pc = "done" THEN "end" ELSE "other"

\* The ScriptData object JSON.parse delivers.
parseScript(n) ==
  IF n < 0 THEN [shape |-> "empty", paragraphs |-> <<>>]
           ELSE [shape |-> "full", paragraphs |-> [i \in 1..n |-> NewParagraph]]

\* Lines 56-61: generateScript returned.  With a script of {} the call of
\* generateMetadata at line 61 throws before its request, and the rejection is
\* delivered before any other event: commit, catch and finally are one segment.
ScriptDone(r, out) ==
  /\ runs[r].pc = "script"
  /\ out \in generateScript
  /\ IF ~ out.ok
       THEN /\ Abort(r, state, "script")
            /\ pending' = pending \ {Call(r, "script", 0)}
            /\ UNCHANGED scripts
       ELSE LET data == parseScript(out.value)
                s == updateState(updateState(state, [script |-> r]),
                                 [currentStep |-> stepAt("metadata")])
                run == Suspend(runs[r], "metadata", Call(r, "metadata", 0))
            IN /\ scripts' = [scripts EXCEPT ![r] = data]
               /\ IF generateMetadata(data.shape) = {Rejected}
                    THEN /\ state' = finallyWorkflow(s)
                         /\ runs' = [runs EXCEPT ![r] =
                               [catchWorkflow(run, "metadata") EXCEPT !.pc = "done"]]
                         /\ pending' = pending \ {Call(r, "script", 0)}
                    ELSE /\ state' = s
                         /\ runs' = [runs EXCEPT ![r] = run]
                         /\ pending' = (pending \ {Call(r, "script", 0)})
                                          \cup {Call(r, "metadata", 0)}
  /\ UNCHANGED <<started, retries>>
  /\ last' = IF runs'[r].pc = "done" THEN "end" ELSE "other"

\* Lines 61-66: generateMetadata returned.
MetadataDone(r, out) ==
  /\ runs[r].pc = "metadata"
  /\ out \in generateMetadata(scripts[r].shape)
  /\ IF out.ok
       THEN /\ state' = updateState(updateState(state, [metadata |-> r]),
                                    [currentStep |-> stepAt("thumbText")])
            /\ runs' = [runs EXCEPT ![r] =
                  Suspend(@, "thumbText", Call(r, "thumbnail", 0))]
            /\ pending' = (pending \ {Call(r, "metadata", 0)}) \cup {Call(r, "thumbnail", 0)}
       ELSE /\ Abort(r, state, "metadata")
            /\ pending' = pending \ {Call(r, "metadata", 0)}
  /\ UNCHANGED <<scripts, started, retries>>
  /\ last' = IF runs'[r].pc = "done" THEN "end" ELSE "other"

\* Faulty variant of thumbnailImageRequested: the image request is made
\* whatever the copy-suggestion request returned.
thumbnailImageAlwaysRequested(out) == TRUE

\* geminiService.ts lines 138-167: the await of the copy-suggestion request
\* throws when it rejects, so line 167 is reached only when it resolved.
thumbnailImageRequested(out) == out.ok

\* geminiService.ts lines 138-167: the copy-suggestion request of
\* generateThumbnailContent returned; on success the function goes on to its
\* generateImage request, on failure it rejects and startWorkflow aborts.
ThumbnailTextDone(r, out) ==
  /\ runs[r].pc = "thumbText"
  /\ out \in thumbnailText
  /\ IF thumbnailImageRequested(out)
       THEN /\ runs' = [runs EXCEPT ![r].pc = "thumbImage",
                                    ![r].thumb = Append(@, out.ok)]
            /\ UNCHANGED <<state, pending>>
       ELSE /\ state' = finallyWorkflow(state)
            /\ runs' = [runs EXCEPT ![r] =
                  [catchWorkflow([@ EXCEPT !.thumb = Append(@, out.ok)], "thumbnail")
                     EXCEPT !.pc = "done"]]
            /\ pending' = pending \ {Call(r, "thumbnail", 0)}
  /\ UNCHANGED <<scripts, started, retries>>
  /\ last' = IF runs'[r].pc = "done" THEN "end" ELSE "other"

\* updatedParagraphs[i].isGenerating = true (line 73): the paragraph objects
\* are shared by every copy of the array, so the object itself changes.
markGenerating(ps, i) == [ps EXCEPT ![i].isGenerating = TRUE]

\* Faulty variant of settleLoopImage: isGenerating is reset inside the try
\* block, so a rejected call leaves it true.
settleLoopImageInTry(p, out) ==
  IF out.ok THEN [imageUrl |-> out.value, isGenerating |-> FALSE] ELSE p

\* Faulty variant of settleLoopImage: line 83 is missing, isGenerating is
\* never reset.
settleLoopImageKeepsGenerating(p, out) ==
  [imageUrl |-> IF out.ok THEN out.value ELSE p.imageUrl, isGenerating |-> p.isGenerating]

\* Lines 76-83: try { imageUrl = url } catch { log }; isGenerating = false.
settleLoopImage(p, out) ==
  [imageUrl |-> IF out.ok THEN out.value ELSE p.imageUrl, isGenerating |-> FALSE]

\* Faulty variant of LoopStep: the next image call is issued while the call
\* before it is still outstanding.
LoopStepNotAwaited(r, s, ps, run, i) ==
  IF i <= Len(ps)
    THEN /\ scripts' = [scripts EXCEPT ![r].paragraphs = [ps EXCEPT ![i].isGenerating = TRUE]]
         /\ state' = updateState(s, [script |-> r])
         /\ runs' = [runs EXCEPT ![r] =
               [run EXCEPT !.pc = "image", !.i = i, !.calls = Append(@, Call(r, "image", i))]]
         /\ pending' = pending \cup {Call(r, "image", i)}
    ELSE /\ scripts' = [scripts EXCEPT ![r].paragraphs = ps]
         /\ state' = updateState(s, [isProcessing |-> FALSE])
         /\ runs' = [runs EXCEPT ![r] = [run EXCEPT !.pc = "done"]]
         /\ pending' = pending \ {c \in pending : c.run = r}

\* Lines 72-74 for index i, or the end of the loop and the finally block.
\* `s` and `ps` are the state and run r's paragraphs as the segment left them.
LoopStep(r, s, ps, run, i) ==
  IF i <= Len(ps)
    THEN /\ scripts' = [scripts EXCEPT ![r].paragraphs = markGenerating(ps, i)]
         /\ state' = updateState(s, [script |-> r])
         /\ runs' = [runs EXCEPT ![r] =
               [run EXCEPT !.pc = "image", !.i = i, !.calls = Append(@, Call(r, "image", i))]]
         /\ pending' = (pending \ {c \in pending : c.run = r}) \cup {Call(r, "image", i)}
    ELSE /\ scripts' = [scripts EXCEPT ![r].paragraphs = ps]
         /\ state' = finallyWorkflow(s)
         /\ runs' = [runs EXCEPT ![r] = [run EXCEPT !.pc = "done"]]
         /\ pending' = pending \ {c \in pending : c.run = r}

\* geminiService.ts lines 167-172 and App.tsx lines 66-74: the generateImage
\* request of generateThumbnailContent returned.  A rejection rejects
\* generateThumbnailContent; otherwise the thumbnail is committed, the step
\* becomes IMAGES and the loop starts.
ThumbnailImageDone(r, out) ==
  /\ runs[r].pc = "thumbImage"
  /\ out \in generateImage
  /\ IF out.ok
       THEN LoopStep(r,
               updateState(updateState(state,
                  [thumbnail |-> [id |-> r, pureImageUrl |-> out.value]]),
                  [currentStep |-> stepAt("image")]),
               scripts[r].paragraphs,
               [runs[r] EXCEPT !.steps = Append(@, stepAt("image")),
                               !.thumb = Append(@, TRUE)],
               1)
       ELSE /\ state' = finallyWorkflow(state)
            /\ runs' = [runs EXCEPT ![r] =
                  [catchWorkflow([@ EXCEPT !.thumb = Append(@, FALSE)], "thumbnail")
                     EXCEPT !.pc = "done"]]
            /\ pending' = pending \ {Call(r, "thumbnail", 0)}
            /\ UNCHANGED scripts
  /\ UNCHANGED <<started, retries>>
  /\ last' = IF runs'[r].pc = "done" THEN "end" ELSE "other"

\* Lines 77-85: the generateImage call of the loop for index runs[r].i returned.
ImageDone(r, out) ==
  /\ runs[r].pc = "image"
  /\ out \in generateImage
  /\ LET i == runs[r].i
         ps == [scripts[r].paragraphs EXCEPT ![i] = settleLoopImage(@, out)]
     IN LoopStep(r, updateState(state, [script |-> r]), ps,
                 [runs[r] EXCEPT !.outcomes = Append(@, out.ok)], i + 1)
  /\ UNCHANGED <<started, retries>>
  /\ last' = IF runs'[r].pc = "done" THEN "end" ELSE "other"

-----------------------------------------------------------------------------
(* retryImage, App.tsx lines 115-130 *)

Outstanding == LET RECURSIVE Sum(_)
                   Sum(S) == IF S = {} THEN 0
                             ELSE LET p == CHOOSE q \in S : TRUE
                                  IN retries[p] + Sum(S \ {p})
               IN Sum(DOMAIN retries)

\* The retry button of a scene is rendered in the IMAGES step, inside
\* {p.imageUrl ? ... : ...} (lines 285-313).
retryShown(idx) ==
  /\ state.currentStep = "images"
  /\ state.script # 0
  /\ idx \in 1..Len(scripts[state.script].paragraphs)
  /\ scripts[state.script].paragraphs[idx].imageUrl \notin {Undefined, ""}

\* Lines 116-122: the click; the closure captures state.script.
RetryImage(idx) ==
  /\ Mounted
  /\ retryShown(idx)
  /\ Outstanding < MaxRetries
  /\ LET sid == state.script
     IN /\ scripts' = [scripts EXCEPT ![sid].paragraphs = markGenerating(@, idx)]
        /\ state' = updateState(state, [script |-> sid])
        /\ retries' = [retries EXCEPT ![<<sid, idx>>] = @ + 1]
        /\ last' = "other"
  /\ UNCHANGED <<runs, started, pending>>

\* Faulty variant of settleRetryImage: isGenerating is reset inside the try
\* block, so a rejected call leaves it true.
settleRetryImageInTry(p, out) ==
  IF out.ok THEN [imageUrl |-> out.value, isGenerating |-> FALSE] ELSE p

\* Faulty variant of settleRetryImage: a rejected call clears the imageUrl.
settleRetryImageClears(p, out) ==
  [imageUrl |-> IF out.ok THEN out.value ELSE Undefined, isGenerating |-> FALSE]

\* Lines 121-128: try { imageUrl = url } catch { log }; isGenerating = false.
settleRetryImage(p, out) ==
  [imageUrl |-> IF out.ok THEN out.value ELSE p.imageUrl, isGenerating |-> FALSE]

\* Line 129: updateState({ script: { ...state.script, paragraphs: newParagraphs } })
\* with the state.script the closure captured at the click.
retryCommit(s, sid) == updateState(s, [script |-> sid])

\* Lines 122-129: the generateImage call of a retry returned.
RetryDone(sid, idx, out) ==
  /\ retries[<<sid, idx>>] > 0
  /\ out \in generateImage
  /\ scripts' = [scripts EXCEPT ![sid].paragraphs[idx] = settleRetryImage(@, out)]
  /\ state' = IF Mounted THEN retryCommit(state, sid) ELSE state
  /\ retries' = [retries EXCEPT ![<<sid, idx>>] = @ - 1]
  /\ last' = "other"
  /\ UNCHANGED <<runs, started, pending>>

-----------------------------------------------------------------------------
(* The user's controls *)

\* textarea onChange (line 176), in the form of the INPUT step.
ChangeTopic(t) ==
  /\ Mounted
  /\ state.currentStep = "input"
  /\ t \in Topics
  /\ t # state.topic
  /\ state' = updateState(state, [topic |-> t])
  /\ last' = "other"
  /\ UNCHANGED <<scripts, runs, started, pending, retries>>

\* renderStepNav (lines 132-157): disabled={state.isProcessing && state.currentStep !== step.id}
navDisabled(step) == state.isProcessing /\ state.currentStep # step

\* A button of the step navigation, rendered when currentStep is not INPUT (line 500).
StepNav(step) ==
  /\ Mounted
  /\ state.currentStep # "input"
  /\ step \in AppStep
  /\ ~ navDisabled(step)
  /\ state' = updateState(state, [currentStep |-> step])
  /\ last' = "other"
  /\ UNCHANGED <<scripts, runs, started, pending, retries>>

\* The header logo (line 475).
HeaderLogo ==
  /\ Mounted
  /\ state' = updateState(state, [currentStep |-> "input"])
  /\ last' = "other"
  /\ UNCHANGED <<scripts, runs, started, pending, retries>>

\* The new-project button (lines 482-489), rendered when currentStep is not INPUT.
NewProject ==
  /\ Mounted
  /\ state.currentStep # "input"
  /\ state' = updateState(state, [currentStep |-> "input"])
  /\ last' = "other"
  /\ UNCHANGED <<scripts, runs, started, pending, retries>>

-----------------------------------------------------------------------------

Next ==
  \/ HandleTopicSubmit
  \/ \E t \in Topics : ChangeTopic(t)
  \/ \E step \in AppStep : StepNav(step)
  \/ HeaderLogo
  \/ NewProject
  \/ \E r \in RunIds : \E out \in performResearch : ResearchDone(r, out)
  \/ \E r \in RunIds : \E out \in generateScript : ScriptDone(r, out)
  \/ \E r \in RunIds : \E out \in generateMetadata("full") : MetadataDone(r, out)
  \/ \E r \in RunIds : \E out \in thumbnailText : ThumbnailTextDone(r, out)
  \/ \E r \in RunIds : \E out \in generateImage : ThumbnailImageDone(r, out)
  \/ \E r \in RunIds : \E out \in generateImage : ImageDone(r, out)
  \/ \E idx \in SceneIds : RetryImage(idx)
  \/ \E sid \in RunIds : \E idx \in SceneIds : \E out \in generateImage : RetryDone(sid, idx, out)

Spec == Init /\ [][Next]_vars

\* The Generation Client call run r waits for returns or fails.
Returns(r) ==
  \/ \E out \in performResearch : ResearchDone(r, out)
  \/ \E out \in generateScript : ScriptDone(r, out)
  \/ \E out \in generateMetadata("full") : MetadataDone(r, out)
  \/ \E out \in thumbnailText : ThumbnailTextDone(r, out)
  \/ \E out \in generateImage : ThumbnailImageDone(r, out)
  \/ \E out \in generateImage : ImageDone(r, out)

\* Every call a run awaits eventually returns or fails, and the continuation of
\* the await is then run by the event loop.
FairSpec == Spec /\ \A r \in RunIds : WF_vars(Returns(r))

-----------------------------------------------------------------------------
(* Properties *)

Active(r) == runs[r].pc \notin {"idle", "done"}

IsPrefix(a, b) == Len(a) <= Len(b) /\ \A k \in 1..Len(a) : a[k] = b[k]

\* The image calls of run r's loop over n paragraphs, in index order.
ImageCalls(r, n) == [i \in 1..n |-> Call(r, "image", i)]

\* The calls of a whole run r, in the order startWorkflow makes them.
CallOrder(r) ==
  <<Call(r, "research", 0), Call(r, "script", 0), Call(r, "metadata", 0),
    Call(r, "thumbnail", 0)>> \o ImageCalls(r, Len(scripts[r].paragraphs))

\* C1: the calls a run has issued are an initial part of research, script,
\* metadata, thumbnail, image 1, image 2, ...; and of the calls it has issued
\* only the one issued last can still be outstanding, so each call was issued
\* after the one before it had returned and no two are outstanding together.
C1_CallsInOrderOneAtATime ==
  \A r \in RunIds :
    LET mine == {c \in pending : c.run = r}
        issued == runs[r].calls
    IN /\ IsPrefix(issued, CallOrder(r))
       /\ Cardinality(mine) <= 1
       /\ mine \subseteq (IF issued = <<>> THEN {} ELSE {issued[Len(issued)]})
       /\ Active(r) => mine # {}

\* A run waits for its second image call, having made all five kinds of call.
C1_Witness ==
  \E r \in RunIds :
    /\ Len(runs[r].calls) = 6
    /\ pending = {Call(r, "image", 2)}

\* The position of a step in the order of types.ts AppStep, which is the order
\* of the step navigation.
EnumRank(step) ==
  CASE step = "input" -> 0
    [] step = "research" -> 1
    [] step = "script" -> 2
    [] step = "images" -> 3
    [] step = "metadata" -> 4
    [] step = "thumbnail" -> 5

\* The position of a step in the order RESEARCH, SCRIPT, METADATA, THUMBNAIL,
\* IMAGES.
RunRank(step) ==
  CASE step = "input" -> 0
    [] step = "research" -> 1
    [] step = "script" -> 2
    [] step = "metadata" -> 3
    [] step = "thumbnail" -> 4
    [] step = "images" -> 5

\* C2 as stated: the steps a run sets never go back in the order INPUT,
\* RESEARCH, SCRIPT, IMAGES, METADATA, THUMBNAIL.
C2_StepsForwardInNavOrder ==
  \A r \in RunIds : \A k \in 1..Len(runs[r].steps) :
    \A j \in 1..k : EnumRank(runs[r].steps[j]) <= EnumRank(runs[r].steps[k])

\* C2, amended: every step a run sets is later than all it set before in the
\* order RESEARCH, SCRIPT, METADATA, THUMBNAIL, IMAGES, and the first it sets
\* is RESEARCH.
C2_StepsForwardInRunOrder ==
  \A r \in RunIds : \A k \in 1..Len(runs[r].steps) :
    /\ runs[r].steps[1] = "research"
    /\ \A j \in 1..(k - 1) : RunRank(runs[r].steps[j]) < RunRank(runs[r].steps[k])

\* A run has set all five steps and shows IMAGES.
C2_Witness ==
  \E r \in RunIds :
    /\ Len(runs[r].steps) = 5
    /\ Active(r)
    /\ state.currentStep = "images"

\* C3: isProcessing is true exactly when a run is in progress.
C3_ProcessingIffRunActive ==
  state.isProcessing <=> \E r \in RunIds : Active(r)

\* A retry is outstanding after the last run has returned, and isProcessing is
\* false.
C3_Witness ==
  /\ started > 0
  /\ \A r \in RunIds : ~ Active(r)
  /\ Outstanding > 0
  /\ ~ state.isProcessing

\* C4: while isProcessing is true, a step that is not a run's (a control of the
\* user, or a retry returning) leaves currentStep as it is or at the step the
\* run in progress has set.
C4_NavigationRestricted ==
  [][(state.isProcessing /\ runs' = runs) =>
       \/ state'.currentStep = state.currentStep
       \/ \E r \in RunIds : /\ Active(r)
                            /\ state'.currentStep = runs[r].steps[Len(runs[r].steps)]]_vars

\* C5: a call of startWorkflow with an empty topic changes nothing: the state
\* (isProcessing still false), the runs with their calls and notices, and the
\* outstanding calls are what they were.
C5_EmptyTopicChangesNothing ==
  [][(last' = "startWorkflow" /\ state.topic = "") =>
       /\ state' = state
       /\ ~ state'.isProcessing
       /\ runs' = runs
       /\ pending' = pending
       /\ started' = started
       /\ scripts' = scripts
       /\ retries' = retries]_vars

\* startWorkflow was called last, with an empty topic, on a state that holds the
\* results of an earlier run.
C5_Witness ==
  /\ last = "startWorkflow"
  /\ state.topic = ""
  /\ state.research # 0
  /\ state.script # 0

\* The run that returned in the operation that ran last, if one did.
JustEnded(r) == last = "end" /\ r = started /\ runs[r].pc = "done"

\* C6: when a run has ended on a failed research, script, metadata or thumbnail
\* call, none of its calls is outstanding, it produced exactly one failure
\* notice, isProcessing is false, and what its earlier stages committed is in
\* the state: research after a later failure, script after a metadata or
\* thumbnail failure, metadata after a thumbnail failure.
C6_AbortKeepsCommitted ==
  \A r \in RunIds :
    (JustEnded(r) /\ runs[r].failed # "none") =>
      /\ {c \in pending : c.run = r} = {}
      /\ runs[r].alerts = 1
      /\ ~ state.isProcessing
      /\ runs[r].failed \in {"script", "metadata", "thumbnail"} => state.research = r
      /\ runs[r].failed \in {"metadata", "thumbnail"} => state.script = r
      /\ runs[r].failed = "thumbnail" => state.metadata = r

\* The run started from a state without script, metadata and thumbnail.
StartedFresh(r) == runs[r].before = [script |-> 0, metadata |-> 0, thumbnail |-> 0]

\* The latest run has returned because its generateScript call rejected.
ScriptCallFailed(r) ==
  r = started /\ runs[r].pc = "done" /\ runs[r].failed = "script"

OutstandingFor(s, i) ==
  retries[<<s, i>>] + (IF Call(s, "image", i) \in pending THEN 1 ELSE 0)

\* C9: a paragraph has isGenerating true only while an image call for it is
\* outstanding.
C9_GeneratingOnlyWhileOutstanding ==
  \A s \in RunIds : \A i \in 1..Len(scripts[s].paragraphs) :
    scripts[s].paragraphs[i].isGenerating => OutstandingFor(s, i) > 0

\* Two retries of one paragraph are outstanding, and it is marked generating,
\* while the loop of the run that generated the script waits for the image of
\* another paragraph.
C9_Witness ==
  \E s \in RunIds : \E i \in 1..Len(scripts[s].paragraphs) :
    /\ retries[<<s, i>>] = 2
    /\ scripts[s].paragraphs[i].isGenerating
    /\ runs[s].pc = "image"

C11_EmptyImageNotStored ==
  \A s \in RunIds : \A i \in 1..Len(scripts[s].paragraphs) :
    scripts[s].paragraphs[i].imageUrl # ""

\* The copy-suggestion request of run r's generateThumbnailContent call failed.
CopyCallFailed(r) == runs[r].thumb # <<>> /\ ~ runs[r].thumb[1]

\* A thumbnail image request of run r was made only after its copy-suggestion
\* request had succeeded, and none after it had failed.
ImageAfterCopyOnly(r) ==
  /\ CopyCallFailed(r) => (Len(runs[r].thumb) = 1 /\ runs[r].pc = "done")
  /\ (runs[r].pc = "thumbImage" \/ Len(runs[r].thumb) = 2) => runs[r].thumb[1]

C13_ThumbnailImageFailureIsLocal ==
  \A r \in RunIds :
    runs[r].thumb = <<TRUE, FALSE>> =>
      /\ runs[r].alerts = 0
      /\ runs[r].failed = "none"
      /\ runs[r].steps[Len(runs[r].steps)] = "images"
      /\ JustEnded(r) => (state.thumbnail.id = r /\ state.thumbnail.pureImageUrl = Undefined)

\* The run has returned and every call it made succeeded.
AllSucceeded(r) ==
  /\ runs[r].pc = "done"
  /\ runs[r].failed = "none"
  /\ \A k \in 1..Len(runs[r].outcomes) : runs[r].outcomes[k]

\* The run made all its calls, the image call of the last scene being the last.
AfterLastScene(r) ==
  /\ runs[r].calls = CallOrder(r)
  /\ Len(runs[r].outcomes) = Len(scripts[r].paragraphs)

\* research, script, metadata and thumbnail are populated.
Populated ==
  /\ state.research # 0
  /\ state.script # 0
  /\ state.metadata # 0
  /\ state.thumbnail.id # 0

\* Whenever a run is in progress, a run eventually ends with isProcessing
\* false; the run in progress is the one started last, so it is the run that
\* ends; and every run ends with isProcessing false.
RunInProgressEnds ==
  /\ (\E r \in RunIds : Active(r)) ~>
        (\E r \in RunIds : JustEnded(r) /\ ~ state.isProcessing)
  /\ [](\A r \in RunIds : Active(r) => r = started)
  /\ [](\A r \in RunIds : JustEnded(r) => ~ state.isProcessing)

\* C14 as stated: every run that starts eventually ends with isProcessing
\* false; and a run in which every call succeeded ends right after the last
\* scene's image attempt with research, script, metadata and thumbnail
\* populated and isGenerating false in every scene.
C14_RunEndsAllScenesIdle ==
  /\ RunInProgressEnds
  /\ [](\A r \in RunIds : (JustEnded(r) /\ AllSucceeded(r)) =>
          /\ AfterLastScene(r)
          /\ Populated
          /\ \A s \in {r, state.script} : \A i \in 1..Len(scripts[s].paragraphs) :
               ~ scripts[s].paragraphs[i].isGenerating)

\* C14, amended: every run that starts eventually ends with isProcessing
\* false; and a run in which every call succeeded ends right after the last
\* scene's image attempt with research, script, metadata and thumbnail
\* populated and isGenerating false in every scene for which no single-scene
\* retry is outstanding.
C14_RunEndsScenesIdleButRetried ==
  /\ RunInProgressEnds
  /\ [](\A r \in RunIds : (JustEnded(r) /\ AllSucceeded(r)) =>
          /\ AfterLastScene(r)
          /\ Populated
          /\ \A s \in {r, state.script} : \A i \in 1..Len(scripts[s].paragraphs) :
               retries[<<s, i>>] = 0 => ~ scripts[s].paragraphs[i].isGenerating)

\* A run in which every call succeeded has just ended after the image attempt
\* of its second scene, while a retry of its first scene is outstanding.
C14_Witness ==
  \E r \in RunIds :
    /\ JustEnded(r)
    /\ AllSucceeded(r)
    /\ Len(runs[r].outcomes) = 2
    /\ retries[<<r, 1>>] > 0
    /\ scripts[r].paragraphs[1].isGenerating
    /\ ~ scripts[r].paragraphs[2].isGenerating

\* The paragraphs other than paragraph idx of script sid are what they were.
OtherScenesUnchanged(sid, idx) ==
  \A s \in RunIds :
    /\ scripts'[s].shape = scripts[s].shape
    /\ Len(scripts'[s].paragraphs) = Len(scripts[s].paragraphs)
    /\ \A i \in 1..Len(scripts[s].paragraphs) :
         <<s, i>> # <<sid, idx>> => scripts'[s].paragraphs[i] = scripts[s].paragraphs[i]

\* C15: a retry for paragraph idx, when it begins and when its call returns,
\* changes nothing but that paragraph: the state holds the script, research,
\* metadata, thumbnail, step and flags it held (a script committed since the
\* retry began is not replaced by the one the retry captured), the other
\* paragraphs and the runs are what they were.
C15_RetryChangesOnlyItsScene ==
  [][\A sid \in RunIds : \A idx \in SceneIds :
       ((sid = state.script /\ RetryImage(idx))
          \/ \E out \in generateImage : RetryDone(sid, idx, out)) =>
         /\ state' = state
         /\ OtherScenesUnchanged(sid, idx)
         /\ runs' = runs
         /\ pending' = pending]_vars

\* C16: a run is started only when isProcessing is false and no run is in
\* progress; the run in progress is the one started last and no other is; the
\* outstanding calls of runs are its calls; and only it takes steps, so the
\* stage updates and calls of two runs never interleave.
C16_AtMostOneRun ==
  [][/\ started' # started =>
          (~ state.isProcessing /\ \A r \in RunIds : ~ Active(r))
     /\ \A r \in RunIds :
          /\ runs'[r].pc \notin {"idle", "done"} =>
               (r = started' /\ \A q \in RunIds \ {r} : runs'[q].pc \in {"idle", "done"})
          /\ runs'[r] # runs[r] => r = started'
     /\ \A c \in pending' : c.run = started' /\ runs'[c.run].pc \notin {"idle", "done"}]_vars

\* While the first run is in progress the user is at the INPUT form with a
\* topic entered, and a further run could be started but for the disabled
\* submit button.
C16_Witness ==
  /\ started = 1
  /\ Active(1)
  /\ state.currentStep = "input"
  /\ state.topic # ""
  /\ state.isProcessing

====
